---- MODULE Spec2Model ----
(***************************************************************************)
(* Model of the storage-abstraction layer of rn-template:                  *)
(*   - the typed storage facades localStorage / jsonStorage /              *)
(*     numberStorage / booleanStorage over one shared MMKV instance        *)
(*     (src/utils/jotai.ts 310-525),                                       *)
(*   - the persisted atoms atomWithMMKV* (src/utils/jotai.ts 15-147),      *)
(*   - the debounce helper createDebouncedAtom (src/utils/jotai.ts         *)
(*     282-304).                                                           *)
(* JavaScript values are tagged records; strings are sequences of          *)
(* one-character strings so that JSON.stringify / JSON.parse are computed. *)
(***************************************************************************)
EXTENDS Integers, Sequences, FiniteSets, TLC

(***************************************************************************)
(* Bounds of the model.                                                    *)
(***************************************************************************)
MaxStrLen == 1
MaxNum == 2
MaxArrLen == 1
MaxTime == 4
MaxWrites == 3
MaxDelay == 2
MaxInputLen == 1
MaxVisits == 3

(***************************************************************************)
(* JavaScript values.                                                      *)
(***************************************************************************)
JUndef == [t |-> "undef"]
JNull == [t |-> "null"]
JBool(b) == [t |-> "bool", b |-> b]
JNum(n) == [t |-> "num", n |-> n]
JStr(s) == [t |-> "str", s |-> s]
JArr(a) == [t |-> "arr", a |-> a]
JObj(o) == [t |-> "obj", o |-> o]
JKeys(a) == [t |-> "keys", a |-> a]

\* a ?? b
Nullish(a, b) == IF a.t \in {"undef", "null"} THEN b ELSE a

\* !a  (JavaScript falsiness of a value)
Falsy(a) ==
    \/ a.t \in {"undef", "null"}
    \/ a.t = "bool" /\ ~a.b
    \/ a.t = "num" /\ a.n = 0
    \/ a.t = "str" /\ a.s = <<>>

\* a || b
OrElse(a, b) == IF Falsy(a) THEN b ELSE a

(***************************************************************************)
(* The value domains the operations are exercised with.                    *)
(***************************************************************************)
StrChars == {"a", "\""}
SeqsUpTo(S, n) == UNION {[1..m -> S] : m \in 0..n}
Strs == SeqsUpTo(StrChars, MaxStrLen)
Nums == (0 - 1)..MaxNum
JsonScalars == {JNull} \cup {JBool(b) : b \in BOOLEAN} \cup {JNum(n) : n \in Nums}
                 \cup {JStr(s) : s \in Strs}
\* the values nested in arrays and objects
JsonElems == {JNull, JNum(MaxNum), JStr(<<"a">>), JArr(<<>>)}
ObjKeys == {<<"a">>}
JsonArrs == {JArr(a) : a \in SeqsUpTo(JsonElems, MaxArrLen)}
JsonObjs == {JObj(<<>>)} \cup {JObj([k \in ObjKeys |-> e]) : e \in JsonElems}
\* the JSON-serializable values
JsonVals == JsonScalars \cup JsonArrs \cup JsonObjs
\* the few of them the four facades are exercised with side by side
JsonFew == {JNull, JStr(<<>>), JObj([k \in ObjKeys |-> JNum(MaxNum)])}

(***************************************************************************)
(* JSON.stringify                                                          *)
(***************************************************************************)
DigitChars == <<"0", "1", "2", "3", "4", "5", "6", "7", "8", "9">>

RECURSIVE NatToChars(_)
NatToChars(n) ==
    IF n < 10 THEN <<DigitChars[n + 1]>>
    ELSE NatToChars(n \div 10) \o <<DigitChars[(n % 10) + 1]>>

NumToChars(n) == IF n < 0 THEN <<"-">> \o NatToChars(0 - n) ELSE NatToChars(n)

RECURSIVE EscapeChars(_)
EscapeChars(s) ==
    IF s = <<>> THEN <<>>
    ELSE (IF Head(s) \in {"\"", "\\"} THEN <<"\\", Head(s)>> ELSE <<Head(s)>>)
            \o EscapeChars(Tail(s))

Quote(s) == <<"\"">> \o EscapeChars(s) \o <<"\"">>

RECURSIVE SetToSeq(_)
SetToSeq(S) ==
    IF S = {} THEN <<>>
    ELSE LET x == CHOOSE y \in S : TRUE IN <<x>> \o SetToSeq(S \ {x})

RECURSIVE JoinComma(_)
JoinComma(parts) ==
    IF parts = <<>> THEN <<>>
    ELSE IF Len(parts) = 1 THEN parts[1]
    ELSE parts[1] \o <<",">> \o JoinComma(Tail(parts))

\* The text of a value; JUndef stands for "stringify returned undefined".
RECURSIVE StringifyText(_)
StringifyText(v) ==
    CASE v.t = "null" -> <<"n", "u", "l", "l">>
      [] v.t = "bool" -> IF v.b THEN <<"t", "r", "u", "e">> ELSE <<"f", "a", "l", "s", "e">>
      [] v.t = "num" -> NumToChars(v.n)
      [] v.t = "str" -> Quote(v.s)
      [] v.t = "arr" ->
            <<"[">> \o JoinComma([i \in 1..Len(v.a) |->
                         IF v.a[i].t = "undef" THEN <<"n", "u", "l", "l">>
                         ELSE StringifyText(v.a[i])]) \o <<"]">>
      [] v.t = "obj" ->
            LET ks == SetToSeq({k \in DOMAIN v.o : v.o[k].t # "undef"})
            IN <<"{">> \o JoinComma([i \in 1..Len(ks) |->
                         Quote(ks[i]) \o <<":">> \o StringifyText(v.o[ks[i]])]) \o <<"}">>

JSON_stringify(v) == IF v.t = "undef" THEN JUndef ELSE JStr(StringifyText(v))

(***************************************************************************)
(* JSON.parse: a recursive-descent parser over the character sequence.     *)
(* A parse step yields [ok, v, i]: success, the value, the next index.     *)
(***************************************************************************)
PFail == [ok |-> FALSE, v |-> JUndef, i |-> 0]
POk(v, i) == [ok |-> TRUE, v |-> v, i |-> i]

RECURSIVE SkipWs(_, _)
SkipWs(s, i) == IF i <= Len(s) /\ s[i] = " " THEN SkipWs(s, i + 1) ELSE i

Lit(s, i, w) == i + Len(w) - 1 <= Len(s) /\ SubSeq(s, i, i + Len(w) - 1) = w

IsDigit(c) == \E d \in 1..10 : DigitChars[d] = c
DigitVal(c) == (CHOOSE d \in 1..10 : DigitChars[d] = c) - 1

RECURSIVE ParseDigits(_, _, _)
ParseDigits(s, i, acc) ==
    IF i <= Len(s) /\ IsDigit(s[i]) THEN ParseDigits(s, i + 1, acc * 10 + DigitVal(s[i]))
    ELSE [n |-> acc, i |-> i]

\* -? (0 | [1-9][0-9]*)
ParseNumber(s, i) ==
    LET neg == i <= Len(s) /\ s[i] = "-"
        j == IF neg THEN i + 1 ELSE i
    IN IF ~(j <= Len(s) /\ IsDigit(s[j])) THEN PFail
       ELSE IF s[j] = "0" THEN POk(JNum(0), j + 1)
       ELSE LET d == ParseDigits(s, j, 0)
            IN POk(JNum(IF neg THEN 0 - d.n ELSE d.n), d.i)

\* the characters after the opening quote, up to and including the closing one
RECURSIVE ParseStrBody(_, _, _)
ParseStrBody(s, i, acc) ==
    IF i > Len(s) THEN PFail
    ELSE IF s[i] = "\"" THEN POk(JStr(acc), i + 1)
    ELSE IF s[i] = "\\" THEN
            IF i + 1 <= Len(s) /\ s[i + 1] \in {"\"", "\\"}
            THEN ParseStrBody(s, i + 2, Append(acc, s[i + 1]))
            ELSE PFail
    ELSE ParseStrBody(s, i + 1, Append(acc, s[i]))

RECURSIVE ParseValue(_, _)
RECURSIVE ParseElems(_, _, _)
RECURSIVE ParseMembers(_, _, _)

ParseValue(s, i0) ==
    LET i == SkipWs(s, i0)
    IN IF i > Len(s) THEN PFail
       ELSE IF Lit(s, i, <<"n", "u", "l", "l">>) THEN POk(JNull, i + 4)
       ELSE IF Lit(s, i, <<"t", "r", "u", "e">>) THEN POk(JBool(TRUE), i + 4)
       ELSE IF Lit(s, i, <<"f", "a", "l", "s", "e">>) THEN POk(JBool(FALSE), i + 5)
       ELSE IF s[i] = "\"" THEN ParseStrBody(s, i + 1, <<>>)
       ELSE IF s[i] = "[" THEN
            LET j == SkipWs(s, i + 1)
            IN IF j <= Len(s) /\ s[j] = "]" THEN POk(JArr(<<>>), j + 1)
               ELSE ParseElems(s, j, <<>>)
       ELSE IF s[i] = "{" THEN
            LET j == SkipWs(s, i + 1)
            IN IF j <= Len(s) /\ s[j] = "}" THEN POk(JObj(<<>>), j + 1)
               ELSE ParseMembers(s, j, <<>>)
       ELSE ParseNumber(s, i)

\* value ("," value)* "]"
ParseElems(s, i, acc) ==
    LET r == ParseValue(s, i)
    IN IF ~r.ok THEN PFail
       ELSE LET j == SkipWs(s, r.i)
            IN IF j > Len(s) THEN PFail
               ELSE IF s[j] = "]" THEN POk(JArr(Append(acc, r.v)), j + 1)
               ELSE IF s[j] = "," THEN ParseElems(s, j + 1, Append(acc, r.v))
               ELSE PFail

\* string ":" value ("," string ":" value)* "}"
ParseMembers(s, i0, acc) ==
    LET i == SkipWs(s, i0)
    IN IF ~(i <= Len(s) /\ s[i] = "\"") THEN PFail
       ELSE LET k == ParseStrBody(s, i + 1, <<>>)
            IN IF ~k.ok THEN PFail
               ELSE LET c == SkipWs(s, k.i)
                    IN IF ~(c <= Len(s) /\ s[c] = ":") THEN PFail
                       ELSE LET r == ParseValue(s, c + 1)
                            IN IF ~r.ok THEN PFail
                               ELSE LET o == [x \in DOMAIN acc \cup {k.v.s} |->
                                                 IF x = k.v.s THEN r.v ELSE acc[x]]
                                        j == SkipWs(s, r.i)
                                    IN IF j > Len(s) THEN PFail
                                       ELSE IF s[j] = "}" THEN POk(JObj(o), j + 1)
                                       ELSE IF s[j] = "," THEN ParseMembers(s, j + 1, o)
                                       ELSE PFail

(***************************************************************************)
(* Outcomes of a call: a normal return with a value, or a thrown error.    *)
(***************************************************************************)
Ok(v) == [kind |-> "ok", val |-> v]
Throw == [kind |-> "throw", val |-> JUndef]

\* try { body } catch { handler }
TryCatch(body, handler) == IF body.kind = "throw" THEN handler ELSE body

\* JSON.parse(text): the value, or a thrown SyntaxError
JSON_parse(text) ==
    LET r == ParseValue(text.s, 1)
    IN IF r.ok /\ SkipWs(text.s, r.i) = Len(text.s) + 1 THEN Ok(r.v) ELSE Throw

(***************************************************************************)
(* The embedded key-value engine (one shared MMKV instance).  An entry is  *)
(* Absent or the string, number or boolean last set under the key.  Any    *)
(* engine call may fault (throw); a faulting call changes nothing.  A read *)
(* of an entry of another type yields `mis`, whatever the engine returns   *)
(* for that raw key: undefined or some value of the type asked for.        *)
(***************************************************************************)
Keys == {"userInput", "visitCount"}
Absent == [t |-> "absent"]
Storable(v) == v.t \in {"str", "num", "bool"}

EngineRead(st, k, type, fault, mis) ==
    IF fault THEN Throw
    ELSE IF st[k].t = type THEN Ok(st[k])
    ELSE IF st[k].t = "absent" THEN Ok(JUndef)
    ELSE Ok(mis)

storage_getString(st, k, fault, mis) == EngineRead(st, k, "str", fault, mis)
storage_getNumber(st, k, fault, mis) == EngineRead(st, k, "num", fault, mis)
storage_getBoolean(st, k, fault, mis) == EngineRead(st, k, "bool", fault, mis)

\* A write yields the store after the call, the outcome, whether the engine
\* threw, and the number of engine calls made.  set throws on a value that is
\* no string, number or boolean.
Faulted(st) == [st |-> st, out |-> Throw, threw |-> TRUE, calls |-> 1]
Written(st) == [st |-> st, out |-> Ok(JUndef), threw |-> FALSE, calls |-> 1]

storage_set(st, k, v, fault) ==
    IF fault \/ ~Storable(v) THEN Faulted(st) ELSE Written([st EXCEPT ![k] = v])

storage_remove(st, k, fault) ==
    IF fault THEN Faulted(st) ELSE Written([st EXCEPT ![k] = Absent])

storage_clearAll(st, fault) ==
    IF fault THEN Faulted(st) ELSE Written([k \in Keys |-> Absent])

storage_getAllKeys(st, fault) ==
    IF fault THEN Throw ELSE Ok(JKeys({k \in Keys : st[k].t # "absent"}))

storage_contains(st, k, fault) ==
    IF fault THEN Throw ELSE Ok(JBool(st[k].t # "absent"))

\* r, then f applied to its value unless r threw
Bind(r, f(_)) == IF r.kind = "throw" THEN r ELSE f(r.val)

\* try { write } catch (error) { console.error(...) }
CatchLog(w) == [w EXCEPT !.out = TryCatch(w.out, Ok(JUndef))]

(***************************************************************************)
(* localStorage                                                            *)
(***************************************************************************)
localStorage_getItem(st, k, fault, mis) ==
    TryCatch(Bind(storage_getString(st, k, fault, mis),
                  LAMBDA value : Ok(Nullish(value, JNull))),
             Ok(JNull))

localStorage_setItem(st, k, v, fault) == CatchLog(storage_set(st, k, v, fault))

localStorage_removeItem(st, k, fault) == CatchLog(storage_remove(st, k, fault))

\* mutant: clear that deletes only the string entries
localStorage_clear_strings(st, fault) ==
    IF fault THEN CatchLog(Faulted(st))
    ELSE Written([k \in Keys |-> IF st[k].t = "str" THEN Absent ELSE st[k]])

localStorage_clear(st, fault) == CatchLog(storage_clearAll(st, fault))

localStorage_getAllKeys(st, fault) == TryCatch(storage_getAllKeys(st, fault), Ok(JKeys({})))

localStorage_hasKey(st, k, fault) == TryCatch(storage_contains(st, k, fault), Ok(JBool(FALSE)))

(***************************************************************************)
(* jsonStorage                                                             *)
(***************************************************************************)
\* mutant: getItem without its try / catch
jsonStorage_getItem_nocatch(st, k, fault, mis) ==
    Bind(storage_getString(st, k, fault, mis),
         LAMBDA value : IF Falsy(value) THEN Ok(JNull) ELSE JSON_parse(value))

jsonStorage_getItem(st, k, fault, mis) ==
    TryCatch(Bind(storage_getString(st, k, fault, mis),
                  LAMBDA value : IF Falsy(value) THEN Ok(JNull) ELSE JSON_parse(value)),
             Ok(JNull))

\* mutant: a faulting write is retried once
jsonStorage_setItem_retry(st, k, v, fault) ==
    LET stringValue == JSON_stringify(v)
        w == storage_set(st, k, stringValue, fault)
    IN IF w.threw
       THEN [CatchLog(storage_set(st, k, stringValue, FALSE)) EXCEPT
                !.threw = TRUE, !.calls = 2]
       ELSE w

\* mutant: a string is stored as it is, without JSON.stringify
jsonStorage_setItem_unquoted(st, k, v, fault) ==
    LET stringValue == IF v.t = "str" THEN v ELSE JSON_stringify(v)
    IN CatchLog(storage_set(st, k, stringValue, fault))

jsonStorage_setItem(st, k, v, fault) ==
    LET stringValue == JSON_stringify(v)
    IN CatchLog(storage_set(st, k, stringValue, fault))

jsonStorage_removeItem(st, k, fault) == localStorage_removeItem(st, k, fault)

(***************************************************************************)
(* numberStorage                                                           *)
(***************************************************************************)
\* mutant: value || null in place of value ?? null
numberStorage_getItem_or(st, k, fault, mis) ==
    TryCatch(Bind(storage_getNumber(st, k, fault, mis),
                  LAMBDA value : Ok(OrElse(value, JNull))),
             Ok(JNull))

numberStorage_getItem(st, k, fault, mis) ==
    TryCatch(Bind(storage_getNumber(st, k, fault, mis),
                  LAMBDA value : Ok(Nullish(value, JNull))),
             Ok(JNull))

numberStorage_setItem(st, k, v, fault) == CatchLog(storage_set(st, k, v, fault))

\* mutant: removeItem that does not reach the engine
numberStorage_removeItem_noop(st, k, fault) ==
    [st |-> st, out |-> Ok(JUndef), threw |-> FALSE, calls |-> 0]

numberStorage_removeItem(st, k, fault) == localStorage_removeItem(st, k, fault)

(***************************************************************************)
(* booleanStorage                                                          *)
(***************************************************************************)
\* mutant: the engine's value returned without ?? null
booleanStorage_getItem_raw(st, k, fault, mis) ==
    TryCatch(storage_getBoolean(st, k, fault, mis), Ok(JNull))

booleanStorage_getItem(st, k, fault, mis) ==
    TryCatch(Bind(storage_getBoolean(st, k, fault, mis),
                  LAMBDA value : Ok(Nullish(value, JNull))),
             Ok(JNull))

booleanStorage_setItem(st, k, v, fault) == CatchLog(storage_set(st, k, v, fault))

\* mutant: the key is removed only when it holds a boolean (a facade with a
\* namespace of its own)
booleanStorage_removeItem_typed(st, k, fault) ==
    IF st[k].t \in {"bool", "absent"} THEN localStorage_removeItem(st, k, fault)
    ELSE CatchLog(IF fault THEN Faulted(st) ELSE Written(st))

booleanStorage_removeItem(st, k, fault) == localStorage_removeItem(st, k, fault)

(***************************************************************************)
(* The four facades by name.                                               *)
(***************************************************************************)
Facades == {"localStorage", "jsonStorage", "numberStorage", "booleanStorage"}

\* the values a caller may pass to setItem of a facade
Domain(f) ==
    CASE f = "localStorage" -> {JStr(s) : s \in Strs}
      [] f = "jsonStorage" -> JsonFew \cup {JUndef}
      [] f = "numberStorage" -> {JNum(n) : n \in Nums}
      [] f = "booleanStorage" -> {JBool(b) : b \in BOOLEAN}

\* what the engine may hand back for an entry of another type
MisReads(f) ==
    {JUndef} \cup (CASE f \in {"localStorage", "jsonStorage"} -> {JStr(s) : s \in Strs}
                     [] f = "numberStorage" -> {JNum(n) : n \in Nums}
                     [] f = "booleanStorage" -> {JBool(b) : b \in BOOLEAN})

\* the same, at an entry: only an entry of another type is misread
ReadType(f) ==
    CASE f \in {"localStorage", "jsonStorage"} -> "str"
      [] f = "numberStorage" -> "num"
      [] f = "booleanStorage" -> "bool"

MisReadsAt(f, e) == IF e.t \in {"absent", ReadType(f)} THEN {JUndef} ELSE MisReads(f)

GetItem(f, st, k, fault, mis) ==
    CASE f = "localStorage" -> localStorage_getItem(st, k, fault, mis)
      [] f = "jsonStorage" -> jsonStorage_getItem(st, k, fault, mis)
      [] f = "numberStorage" -> numberStorage_getItem(st, k, fault, mis)
      [] f = "booleanStorage" -> booleanStorage_getItem(st, k, fault, mis)

SetItem(f, st, k, v, fault) ==
    CASE f = "localStorage" -> localStorage_setItem(st, k, v, fault)
      [] f = "jsonStorage" -> jsonStorage_setItem(st, k, v, fault)
      [] f = "numberStorage" -> numberStorage_setItem(st, k, v, fault)
      [] f = "booleanStorage" -> booleanStorage_setItem(st, k, v, fault)

RemoveItem(f, st, k, fault) ==
    CASE f = "localStorage" -> localStorage_removeItem(st, k, fault)
      [] f = "jsonStorage" -> jsonStorage_removeItem(st, k, fault)
      [] f = "numberStorage" -> numberStorage_removeItem(st, k, fault)
      [] f = "booleanStorage" -> booleanStorage_removeItem(st, k, fault)

(***************************************************************************)
(* The persisted-atom bridge: the storage objects atomWithMMKV* hand to    *)
(* atomWithStorage.  getItem falls back to initialValue; setItem and       *)
(* removeItem pass the call on to the facade.  A bridge write yields the   *)
(* facade it called, the value it passed, and the facade's write result.   *)
(***************************************************************************)
Passed(f, v, w) == [fac |-> f, arg |-> v, w |-> w]

atomWithMMKV_getItem(st, storageKey, initialValue, fault, mis) ==
    TryCatch(Bind(jsonStorage_getItem(st, storageKey, fault, mis),
                  LAMBDA value : Ok(Nullish(value, initialValue))),
             Ok(initialValue))

\* mutant: writing null or undefined removes the key
atomWithMMKV_setItem_nullremoves(st, storageKey, value, fault) ==
    IF value.t \in {"null", "undef"}
    THEN Passed("jsonStorage", value, CatchLog(jsonStorage_removeItem(st, storageKey, fault)))
    ELSE Passed("jsonStorage", value,
                CatchLog(jsonStorage_setItem(st, storageKey, value, fault)))

atomWithMMKV_setItem(st, storageKey, value, fault) ==
    Passed("jsonStorage", value, CatchLog(jsonStorage_setItem(st, storageKey, value, fault)))

atomWithMMKV_removeItem(st, storageKey, fault) ==
    Passed("jsonStorage", JUndef, CatchLog(jsonStorage_removeItem(st, storageKey, fault)))

atomWithMMKVString_getItem(st, storageKey, initialValue, fault, mis) ==
    TryCatch(Bind(localStorage_getItem(st, storageKey, fault, mis),
                  LAMBDA value : Ok(Nullish(value, initialValue))),
             Ok(initialValue))

atomWithMMKVString_setItem(st, storageKey, value, fault) ==
    Passed("localStorage", value, CatchLog(localStorage_setItem(st, storageKey, value, fault)))

atomWithMMKVString_removeItem(st, storageKey, fault) ==
    Passed("localStorage", JUndef, CatchLog(localStorage_removeItem(st, storageKey, fault)))

atomWithMMKVNumber_getItem(st, storageKey, initialValue, fault, mis) ==
    TryCatch(Bind(numberStorage_getItem(st, storageKey, fault, mis),
                  LAMBDA value : Ok(Nullish(value, initialValue))),
             Ok(initialValue))

\* mutant: a falsy value is not persisted
atomWithMMKVNumber_setItem_truthy(st, storageKey, value, fault) ==
    IF Falsy(value)
    THEN Passed("none", JUndef, [st |-> st, out |-> Ok(JUndef), threw |-> FALSE, calls |-> 0])
    ELSE Passed("numberStorage", value,
                CatchLog(numberStorage_setItem(st, storageKey, value, fault)))

atomWithMMKVNumber_setItem(st, storageKey, value, fault) ==
    Passed("numberStorage", value, CatchLog(numberStorage_setItem(st, storageKey, value, fault)))

atomWithMMKVNumber_removeItem(st, storageKey, fault) ==
    Passed("numberStorage", JUndef, CatchLog(numberStorage_removeItem(st, storageKey, fault)))

atomWithMMKVBoolean_getItem(st, storageKey, initialValue, fault, mis) ==
    TryCatch(Bind(booleanStorage_getItem(st, storageKey, fault, mis),
                  LAMBDA value : Ok(Nullish(value, initialValue))),
             Ok(initialValue))

atomWithMMKVBoolean_setItem(st, storageKey, value, fault) ==
    Passed("booleanStorage", value, CatchLog(booleanStorage_setItem(st, storageKey, value, fault)))

atomWithMMKVBoolean_removeItem(st, storageKey, fault) ==
    Passed("booleanStorage", JUndef, CatchLog(booleanStorage_removeItem(st, storageKey, fault)))

\* the four constructors by name
AtomKinds == {"atomWithMMKV", "atomWithMMKVString", "atomWithMMKVNumber", "atomWithMMKVBoolean"}

FacadeOf(kind) ==
    CASE kind = "atomWithMMKV" -> "jsonStorage"
      [] kind = "atomWithMMKVString" -> "localStorage"
      [] kind = "atomWithMMKVNumber" -> "numberStorage"
      [] kind = "atomWithMMKVBoolean" -> "booleanStorage"

BridgeGetItem(kind, st, k, d, fault, mis) ==
    CASE kind = "atomWithMMKV" -> atomWithMMKV_getItem(st, k, d, fault, mis)
      [] kind = "atomWithMMKVString" -> atomWithMMKVString_getItem(st, k, d, fault, mis)
      [] kind = "atomWithMMKVNumber" -> atomWithMMKVNumber_getItem(st, k, d, fault, mis)
      [] kind = "atomWithMMKVBoolean" -> atomWithMMKVBoolean_getItem(st, k, d, fault, mis)

BridgeSetItem(kind, st, k, v, fault) ==
    CASE kind = "atomWithMMKV" -> atomWithMMKV_setItem(st, k, v, fault)
      [] kind = "atomWithMMKVString" -> atomWithMMKVString_setItem(st, k, v, fault)
      [] kind = "atomWithMMKVNumber" -> atomWithMMKVNumber_setItem(st, k, v, fault)
      [] kind = "atomWithMMKVBoolean" -> atomWithMMKVBoolean_setItem(st, k, v, fault)

BridgeRemoveItem(kind, st, k, fault) ==
    CASE kind = "atomWithMMKV" -> atomWithMMKV_removeItem(st, k, fault)
      [] kind = "atomWithMMKVString" -> atomWithMMKVString_removeItem(st, k, fault)
      [] kind = "atomWithMMKVNumber" -> atomWithMMKVNumber_removeItem(st, k, fault)
      [] kind = "atomWithMMKVBoolean" -> atomWithMMKVBoolean_removeItem(st, k, fault)

\* the initial values and the key the atoms are created with
AtomInits(kind) ==
    CASE kind = "atomWithMMKV" -> {JNull, JObj([k \in ObjKeys |-> JNum(MaxNum)])}
      [] kind = "atomWithMMKVString" -> {JStr(<<>>), JStr(<<"a">>)}
      [] kind = "atomWithMMKVNumber" -> {JNum(0), JNum(MaxNum)}
      [] kind = "atomWithMMKVBoolean" -> {JBool(FALSE), JBool(TRUE)}

AtomKeys == {"visitCount"}

\* the values written to an atom of a kind
AtomValues(kind) == IF kind \in AtomKinds THEN Domain(FacadeOf(kind)) ELSE {}

(***************************************************************************)
(* HomeScreen: the handlers of the screen over the facades, named         *)
(* HomeScreen_, and of the one in App.tsx over the engine, named App_.     *)
(* A handler yields the store and the screen's state after it, whether an  *)
(* engine call faulted, and the facade call it made last, if any.          *)
(* In App.tsx a fault is an exception that ends the handler.               *)
(***************************************************************************)
InputChars == {"a", " "}
Inputs == SeqsUpTo(InputChars, MaxInputLen)

IsWhitespace(c) == c = " "

RECURSIVE TrimStart(_)
TrimStart(s) == IF s # <<>> /\ IsWhitespace(Head(s)) THEN TrimStart(Tail(s)) ELSE s

RECURSIVE TrimEnd(_)
TrimEnd(s) ==
    IF s # <<>> /\ IsWhitespace(s[Len(s)]) THEN TrimEnd(SubSeq(s, 1, Len(s) - 1)) ELSE s

\* s.trim()
Trim(s) == TrimEnd(TrimStart(s))

\* a + b on numbers
Plus(a, b) == JNum(a.n + b.n)

Impls == {"facade", "engine"}

\* useState(''), useState(''), useState(0)
NoHome == [mounted |-> FALSE, loaded |-> FALSE, impl |-> "none", inputValue |-> <<>>,
           storedValue |-> JStr(<<>>), visitCount |-> JNum(0),
           op |-> "none", was |-> 0, faulted |-> FALSE]

Handled(st, h, threw, call) == [st |-> st, h |-> h, threw |-> threw, call |-> call]

HomeScreen_loadStoredData(h, st, f1, f2, f3, mis1, mis2) ==
    LET value == localStorage_getItem(st, "userInput", f1, mis1).val
        count == OrElse(numberStorage_getItem(st, "visitCount", f2, mis2).val, JNum(0))
        w == numberStorage_setItem(st, "visitCount", Plus(count, JNum(1)), f3)
    IN Handled(w.st,
               [h EXCEPT !.storedValue = Nullish(value, JUndef),
                         !.visitCount = Plus(count, JNum(1))],
               f1 \/ f2 \/ w.threw,
               <<"setItem", "numberStorage", "visitCount", Plus(count, JNum(1)), w>>)

\* mutant: a value is saved whenever the input is not empty
HomeScreen_saveValue_notrim(h, st, fault) ==
    IF h.inputValue # <<>>
    THEN LET w == localStorage_setItem(st, "userInput", JStr(h.inputValue), fault)
         IN Handled(w.st,
                    [h EXCEPT !.storedValue = JStr(h.inputValue), !.inputValue = <<>>],
                    w.threw,
                    <<"setItem", "localStorage", "userInput", JStr(h.inputValue), w>>)
    ELSE Handled(st, h, FALSE, <<>>)

HomeScreen_saveValue(h, st, fault) ==
    IF Trim(h.inputValue) # <<>>
    THEN LET w == localStorage_setItem(st, "userInput", JStr(h.inputValue), fault)
         IN Handled(w.st,
                    [h EXCEPT !.storedValue = JStr(h.inputValue), !.inputValue = <<>>],
                    w.threw,
                    <<"setItem", "localStorage", "userInput", JStr(h.inputValue), w>>)
    ELSE Handled(st, h, FALSE, <<>>)

HomeScreen_deleteValue(h, st, fault) ==
    LET w == localStorage_removeItem(st, "userInput", fault)
    IN Handled(w.st, [h EXCEPT !.storedValue = JUndef, !.inputValue = <<>>], w.threw,
               <<"removeItem", "localStorage", "userInput", JUndef, w>>)

HomeScreen_clearAll(h, st, fault) ==
    LET w == localStorage_clear(st, fault)
    IN Handled(w.st,
               [h EXCEPT !.storedValue = JUndef, !.visitCount = JNum(0),
                         !.inputValue = <<>>],
               w.threw,
               <<"clear", "localStorage", "none", JUndef, w>>)

App_loadStoredData(h, st, f1, f2, f3, mis1, mis2) ==
    LET value == storage_getString(st, "userInput", f1, mis1)
        h1 == [h EXCEPT !.storedValue = value.val]
        read == storage_getNumber(st, "visitCount", f2, mis2)
        count == OrElse(read.val, JNum(0))
        h2 == [h1 EXCEPT !.visitCount = count]
        w == storage_set(st, "visitCount", Plus(count, JNum(1)), f3)
    IN IF value.kind = "throw" THEN Handled(st, h, TRUE, <<>>)
       ELSE IF read.kind = "throw" THEN Handled(st, h1, TRUE, <<>>)
       ELSE IF w.threw THEN Handled(st, h2, TRUE, <<>>)
       ELSE Handled(w.st, [h2 EXCEPT !.visitCount = Plus(count, JNum(1))], FALSE, <<>>)

App_saveValue(h, st, fault) ==
    IF Trim(h.inputValue) # <<>>
    THEN LET w == storage_set(st, "userInput", JStr(h.inputValue), fault)
         IN IF w.threw THEN Handled(st, h, TRUE, <<>>)
            ELSE Handled(w.st,
                         [h EXCEPT !.storedValue = JStr(h.inputValue),
                                   !.inputValue = <<>>],
                         FALSE, <<>>)
    ELSE Handled(st, h, FALSE, <<>>)

App_deleteValue(h, st, fault) ==
    LET w == storage_remove(st, "userInput", fault)
    IN IF w.threw THEN Handled(st, h, TRUE, <<>>)
       ELSE Handled(w.st, [h EXCEPT !.storedValue = JUndef, !.inputValue = <<>>],
                    FALSE, <<>>)

App_clearAll(h, st, fault) ==
    LET w == storage_clearAll(st, fault)
    IN IF w.threw THEN Handled(st, h, TRUE, <<>>)
       ELSE Handled(w.st,
                    [h EXCEPT !.storedValue = JUndef, !.visitCount = JNum(0),
                              !.inputValue = <<>>],
                    FALSE, <<>>)

\* the number the store holds under 'visitCount', 0 when it holds none
StoredCount(st) == IF st["visitCount"].t = "num" THEN st["visitCount"].n ELSE 0

(***************************************************************************)
(* State.                                                                  *)
(*   store : the content of the shared engine, per key                     *)
(*   last  : the facade call made last (operation, facade, key, argument,  *)
(*           whether the engine faulted, outcome, result, engine calls,    *)
(*           whether the key - for clear and getAllKeys: any key - was     *)
(*           present before the call)                                      *)
(*   prev  : when `last` is a read, the call made immediately before it    *)
(*           if that was a clear, or a setItem / removeItem of the key     *)
(*           read, that did not fault; else NoCall                         *)
(*   atom  : the persisted atom: whether it is created, its constructor,   *)
(*           key and initial value, and its in-memory value                *)
(*   delay : the delay of each debounced atom made over the one base atom  *)
(*   base  : the value of the base atom                                    *)
(*   timeoutMap : per debounced atom, the id of the timer its map holds    *)
(*           for the base atom (0: no entry)                               *)
(*   timers : the timers set and neither fired nor cleared (id, debounced  *)
(*           atom, value to commit, time due)                              *)
(*   now   : the time, in ticks                                            *)
(*   writes : the writes made to the debounced atoms (atom, value, time)   *)
(*   commits : the ids of the timers that fired, in the order they fired   *)
(*   dread : the read of a debounced atom, when no write and no commit     *)
(*           followed it: the atom, the value returned, and whether a      *)
(*           timer of the atom was pending                                 *)
(*   home  : the HomeScreen: whether it is mounted, whether the effect of  *)
(*           the mount has run, which of its two sources it runs (over     *)
(*           the facades, or over the engine), its                         *)
(*           three useState cells, the handler run last, the number the    *)
(*           store held under 'visitCount' before the last mount, and      *)
(*           whether an engine call of one of its handlers faulted         *)
(*   alast : the operation made last, when made on the atom (none after a  *)
(*           call made on a facade directly): its argument and result,     *)
(*           the entry the store held under the atom's key before it,      *)
(*           whether the engine faulted in it, the facade the bridge       *)
(*           called and the value it passed, and for a read the operation  *)
(*           made on the atom before it with its argument                  *)
(***************************************************************************)
VARIABLES store, last, prev, atom, alast,
          delay, base, timeoutMap, timers, now, writes, commits, dread, home

dvars == <<delay, base, timeoutMap, timers, now, writes, commits, dread>>
svars == <<store, last, prev>>
avars == <<atom, alast>>
hvars == <<home>>
vars == <<store, last, prev, atom, alast,
          delay, base, timeoutMap, timers, now, writes, commits, dread, home>>

Debs == {1, 2}

NoCall == [op |-> "none", fac |-> "none", key |-> "none", arg |-> JUndef,
           fault |-> FALSE, out |-> "ok", res |-> JUndef, calls |-> 0, had |-> FALSE]

Had(st, k) == IF k \in Keys THEN st[k] # Absent ELSE \E x \in Keys : st[x] # Absent

Call(op, f, k, arg, fault, out, calls) ==
    [op |-> op, fac |-> f, key |-> k, arg |-> arg, fault |-> fault,
     out |-> out.kind, res |-> out.val, calls |-> calls, had |-> Had(store, k)]

Mutations == {"setItem", "removeItem", "clear"}

NoAtom == [created |-> FALSE, kind |-> "none", key |-> "none", init |-> JUndef,
           val |-> JUndef]

NoAtomOp == [op |-> "none", arg |-> JUndef, res |-> JUndef, held |-> JUndef,
             fault |-> FALSE, fac |-> "none", passed |-> JUndef,
             after |-> "none", afterArg |-> JUndef]

\* an operation on the atom that calls the bridge
AtomOp(op, arg, res, k, fault, fac, passed) ==
    [op |-> op, arg |-> arg, res |-> res, held |-> store[k], fault |-> fault,
     fac |-> fac, passed |-> passed, after |-> "none", afterArg |-> JUndef]

InitStore ==
    /\ store = [k \in Keys |-> Absent]
    /\ last = NoCall
    /\ prev = NoCall
    /\ atom = NoAtom
    /\ alast = NoAtomOp
    /\ home = NoHome

NoRead == [deb |-> 0, res |-> JUndef, pending |-> FALSE]

\* createDebouncedAtom(baseAtom, dl[d]) for each d
InitDebounced(dl) ==
    /\ delay = dl
    /\ base = JNum(0)
    /\ timeoutMap = [d \in Debs |-> 0]
    /\ timers = {}
    /\ now = 0
    /\ writes = <<>>
    /\ commits = <<>>
    /\ dread = NoRead

Init == InitStore /\ InitDebounced([d \in Debs |-> 1])

InitDebounce == InitStore /\ \E dl \in [Debs -> 1..MaxDelay] : InitDebounced(dl)

\* a read leaves the store alone and remembers the mutation it follows
Read(call) ==
    /\ last' = call
    /\ prev' = IF /\ last.op \in Mutations
                  /\ ~last.fault
                  /\ last.op = "clear" \/ call.op = "getAllKeys" \/ last.key = call.key
               THEN last ELSE NoCall
    /\ UNCHANGED store

Mutate(w, call) ==
    /\ store' = w.st
    /\ last' = call
    /\ prev' = NoCall

(***************************************************************************)
(* The calls of the facades.                                               *)
(***************************************************************************)
\* a call made on a facade directly: the atom is left alone, and the
\* operation made last is none on the atom
NotOnAtom ==
    /\ atom' = atom
    /\ alast' = NoAtomOp
    /\ UNCHANGED <<dvars, hvars>>

FacadeGetItem(f, k, fault, mis) ==
    /\ Read(Call("getItem", f, k, JUndef, fault, GetItem(f, store, k, fault, mis), 1))
    /\ NotOnAtom

FacadeSetItem(f, k, v, fault) ==
    /\ LET w == SetItem(f, store, k, v, fault)
       IN Mutate(w, Call("setItem", f, k, v, w.threw, w.out, w.calls))
    /\ NotOnAtom

FacadeRemoveItem(f, k, fault) ==
    /\ LET w == RemoveItem(f, store, k, fault)
       IN Mutate(w, Call("removeItem", f, k, JUndef, w.threw, w.out, w.calls))
    /\ NotOnAtom

FacadeClear(fault) ==
    /\ LET w == localStorage_clear(store, fault)
       IN Mutate(w, Call("clear", "localStorage", "none", JUndef, w.threw, w.out, w.calls))
    /\ NotOnAtom

FacadeGetAllKeys(fault) ==
    /\ Read(Call("getAllKeys", "localStorage", "none", JUndef, fault,
                 localStorage_getAllKeys(store, fault), 1))
    /\ NotOnAtom

FacadeHasKey(k, fault) ==
    /\ Read(Call("hasKey", "localStorage", k, JUndef, fault,
                 localStorage_hasKey(store, k, fault), 1))
    /\ NotOnAtom

(***************************************************************************)
(* The persisted atom (atomWithStorage with getOnInit: true).              *)
(***************************************************************************)
\* atomWithMMKV*(key, initialValue): the in-memory value is seeded with the
\* bridge's getItem, which is the value of the first read
AtomCreate(kind, k, d, fault, mis) ==
    /\ ~atom.created
    /\ LET r == BridgeGetItem(kind, store, k, d, fault, mis)
       IN /\ atom' = [created |-> TRUE, kind |-> kind, key |-> k, init |-> d,
                      val |-> r.val]
          /\ alast' = AtomOp("create", d, r.val, k, fault, FacadeOf(kind), JUndef)
          /\ Read(Call("getItem", FacadeOf(kind), k, JUndef, fault,
                       GetItem(FacadeOf(kind), store, k, fault, mis), 1))
    /\ UNCHANGED <<dvars, hvars>>

\* get(atom)
AtomRead ==
    /\ atom.created
    /\ alast' = [NoAtomOp EXCEPT !.op = "read", !.res = atom.val,
                                  !.after = alast.op, !.afterArg = alast.arg]
    /\ UNCHANGED <<store, last, prev, atom, dvars, hvars>>

\* set(atom, v): the in-memory value is set, then the bridge's setItem is called
AtomWrite(v, fault) ==
    /\ atom.created
    /\ atom' = [atom EXCEPT !.val = v]
    /\ LET b == BridgeSetItem(atom.kind, store, atom.key, v, fault)
       IN /\ alast' = AtomOp("write", v, JUndef, atom.key, b.w.threw, b.fac, b.arg)
          /\ Mutate(b.w, Call("setItem", b.fac, atom.key, b.arg, b.w.threw, b.w.out, b.w.calls))
    /\ UNCHANGED <<dvars, hvars>>

\* set(atom, RESET): the in-memory value is set to the initial value, then the
\* bridge's removeItem is called
AtomReset(fault) ==
    /\ atom.created
    /\ atom' = [atom EXCEPT !.val = atom.init]
    /\ LET b == BridgeRemoveItem(atom.kind, store, atom.key, fault)
       IN /\ alast' = AtomOp("reset", JUndef, JUndef, atom.key, b.w.threw, b.fac, b.arg)
          /\ Mutate(b.w, Call("removeItem", b.fac, atom.key, b.arg, b.w.threw, b.w.out,
                              b.w.calls))
    /\ UNCHANGED <<dvars, hvars>>

\* the atom is mounted (a component subscribes): onMount sets the in-memory
\* value to the bridge's getItem
AtomMount(fault, mis) ==
    /\ atom.created
    /\ LET r == BridgeGetItem(atom.kind, store, atom.key, atom.init, fault, mis)
       IN /\ atom' = [atom EXCEPT !.val = r.val]
          /\ alast' = AtomOp("mount", JUndef, r.val, atom.key, fault,
                             FacadeOf(atom.kind), JUndef)
          /\ Read(Call("getItem", FacadeOf(atom.kind), atom.key, JUndef, fault,
                       GetItem(FacadeOf(atom.kind), store, atom.key, fault, mis), 1))
    /\ UNCHANGED <<dvars, hvars>>

(***************************************************************************)
(* The debounced atoms (createDebouncedAtom).                              *)
(***************************************************************************)
\* clearTimeout(id): a timer that fired or was cleared is left alone
ClearTimeout(ts, id) == {tm \in ts : tm.id # id}

\* mutant: a write that does not clear the pending timer
DebouncedWrite_nocancel(d, v) ==
    /\ Len(writes) < MaxWrites
    /\ now + delay[d] <= MaxTime
    /\ LET timeoutId == Len(writes) + 1
       IN /\ timers' = timers \cup
                          {[id |-> timeoutId, deb |-> d, v |-> v, due |-> now + delay[d]]}
          /\ timeoutMap' = [timeoutMap EXCEPT ![d] = timeoutId]
    /\ writes' = Append(writes, [deb |-> d, v |-> v, t |-> now])
    /\ dread' = NoRead
    /\ UNCHANGED <<svars, avars, hvars, delay, base, now, commits>>

\* set(debouncedAtom, v): clear the timer the map holds, set a new one due
\* after the delay, and put its id in the map; writes are made while the
\* timer they set comes due by MaxTime
DebouncedWrite(d, v) ==
    /\ Len(writes) < MaxWrites
    /\ now + delay[d] <= MaxTime
    /\ LET existingTimeout == timeoutMap[d]
           cleared == IF existingTimeout # 0 THEN ClearTimeout(timers, existingTimeout)
                      ELSE timers
           timeoutId == Len(writes) + 1
       IN /\ timers' = cleared \cup
                          {[id |-> timeoutId, deb |-> d, v |-> v, due |-> now + delay[d]]}
          /\ timeoutMap' = [timeoutMap EXCEPT ![d] = timeoutId]
    /\ writes' = Append(writes, [deb |-> d, v |-> v, t |-> now])
    /\ dread' = NoRead
    /\ UNCHANGED <<svars, avars, hvars, delay, base, now, commits>>

\* mutant: the callback sets the base atom only to the value of a write made
\* after the one committed last
TimerFire_newest(tm) ==
    /\ tm \in timers
    /\ now >= tm.due
    /\ base' = IF commits # <<>> /\ commits[Len(commits)] > tm.id THEN base ELSE tm.v
    /\ timeoutMap' = [timeoutMap EXCEPT ![tm.deb] = 0]
    /\ timers' = timers \ {tm}
    /\ commits' = Append(commits, tm.id)
    /\ dread' = NoRead
    /\ UNCHANGED <<svars, avars, hvars, delay, now, writes>>

\* the timer's callback, not before the timer is due: set(baseAtom, newValue)
\* and timeoutMap.delete(baseAtom)
TimerFire(tm) ==
    /\ tm \in timers
    /\ now >= tm.due
    /\ base' = tm.v
    /\ timeoutMap' = [timeoutMap EXCEPT ![tm.deb] = 0]
    /\ timers' = timers \ {tm}
    /\ commits' = Append(commits, tm.id)
    /\ dread' = NoRead
    /\ UNCHANGED <<svars, avars, hvars, delay, now, writes>>

\* mutant: the read returns the value waiting in the atom's timer
DebouncedRead_pending(d) ==
    /\ dread' = [deb |-> d,
                 res |-> IF \E tm \in timers : tm.deb = d
                         THEN (CHOOSE tm \in timers : tm.deb = d).v ELSE base,
                 pending |-> \E tm \in timers : tm.deb = d]
    /\ UNCHANGED <<svars, avars, hvars, delay, base, timeoutMap, timers, now, writes, commits>>

\* get(debouncedAtom): get(baseAtom)
DebouncedRead(d) ==
    /\ dread' = [deb |-> d, res |-> base,
                 pending |-> \E tm \in timers : tm.deb = d]
    /\ UNCHANGED <<svars, avars, hvars, delay, base, timeoutMap, timers, now, writes, commits>>

\* time passes
Tick ==
    /\ now < MaxTime
    /\ now' = now + 1
    /\ UNCHANGED <<svars, avars, hvars, delay, base, timeoutMap, timers, writes, commits, dread>>

(***************************************************************************)
(* The HomeScreen.                                                         *)
(***************************************************************************)
\* the handler `op` has run with result r.  Over the facades a fault is
\* caught inside the call.  Over the engine it is an exception nothing in
\* the screen catches: thrown from the effect it takes the tree down (no
\* error boundary in App.tsx); thrown from an event handler it is either
\* reported, the screen staying as the handler left it, or fatal to the
\* application.
HomeStep(op, r, fatal) ==
    /\ home' = IF r.threw /\ r.h.impl = "engine" /\ (op = "mount" \/ fatal)
               THEN [NoHome EXCEPT !.op = op, !.faulted = TRUE]
               ELSE [r.h EXCEPT !.op = op, !.faulted = home.faulted \/ r.threw,
                                !.loaded = TRUE,
                                !.was = IF op = "mount" THEN StoredCount(store)
                                        ELSE home.was]
    /\ store' = r.st
    /\ IF r.call = <<>> THEN UNCHANGED <<last, prev>>
       ELSE /\ last' = Call(r.call[1], r.call[2], r.call[3], r.call[4],
                            r.call[5].threw, r.call[5].out, r.call[5].calls)
            /\ prev' = NoCall
    /\ UNCHANGED <<avars, dvars>>

\* the screen is rendered and committed: the three cells hold their initial
\* values, the effect is scheduled and has not run, the store is untouched
HomeRender(impl) ==
    /\ ~home.mounted \/ home.loaded
    /\ StoredCount(store) < MaxVisits
    /\ home' = [NoHome EXCEPT !.mounted = TRUE, !.impl = impl, !.op = "render",
                              !.faulted = home.faulted]
    /\ UNCHANGED <<svars, avars, dvars>>

\* the effect of the mount runs loadStoredData, once
HomeEffect(f1, f2, f3, mis1, mis2) ==
    /\ home.mounted /\ ~home.loaded
    /\ HomeStep("mount",
                IF home.impl = "facade"
                THEN HomeScreen_loadStoredData(home, store, f1, f2, f3, mis1, mis2)
                ELSE App_loadStoredData(home, store, f1, f2, f3, mis1, mis2),
                FALSE)

\* onChangeText={setInputValue}; an event is handled once the effect has run
HomeType(text) ==
    /\ home.mounted /\ home.loaded
    /\ home' = [home EXCEPT !.inputValue = text, !.op = "type"]
    /\ UNCHANGED <<svars, avars, dvars>>

HomeSave(fault, fatal) ==
    /\ home.mounted /\ home.loaded
    /\ HomeStep("save",
                IF home.impl = "facade"
                THEN HomeScreen_saveValue(home, store, fault)
                ELSE App_saveValue(home, store, fault),
                fatal)

HomeDelete(fault, fatal) ==
    /\ home.mounted /\ home.loaded
    /\ HomeStep("delete",
                IF home.impl = "facade"
                THEN HomeScreen_deleteValue(home, store, fault)
                ELSE App_deleteValue(home, store, fault),
                fatal)

HomeClearAll(fault, fatal) ==
    /\ home.mounted /\ home.loaded
    /\ HomeStep("clear",
                IF home.impl = "facade"
                THEN HomeScreen_clearAll(home, store, fault)
                ELSE App_clearAll(home, store, fault),
                fatal)

(***************************************************************************)
(* Next-state relations.                                                   *)
(*   Spec     : the four facades side by side on two keys                  *)
(*   SpecJson : jsonStorage on one key with every JSON value, next to      *)
(*              localStorage writes that replace the text                  *)
(*   SpecAtom : one persisted atom next to facade writes on its key        *)
(*   SpecDebounce : two debounced atoms over one base atom; the k-th write *)
(*              carries the value k                                        *)
(*   SpecDebounceFair : the same with reads, under fair timers             *)
(*   SpecHome : the HomeScreen, rendered and then loaded by its effect,    *)
(*              up to MaxVisits times                                      *)
(***************************************************************************)
Next ==
    \/ \E f \in Facades, k \in Keys, fault \in BOOLEAN : \E mis \in MisReadsAt(f, store[k]) :
          FacadeGetItem(f, k, fault, mis)
    \/ \E f \in Facades, k \in Keys, fault \in BOOLEAN : \E v \in Domain(f) :
          FacadeSetItem(f, k, v, fault)
    \/ \E f \in Facades, k \in Keys, fault \in BOOLEAN : FacadeRemoveItem(f, k, fault)
    \/ \E fault \in BOOLEAN : FacadeClear(fault)
    \/ \E fault \in BOOLEAN : FacadeGetAllKeys(fault)
    \/ \E k \in Keys, fault \in BOOLEAN : FacadeHasKey(k, fault)

Spec == Init /\ [][Next]_vars

JsonKeys == {"userInput"}

NextJson ==
    \/ \E k \in JsonKeys, fault \in BOOLEAN, v \in JsonVals \cup {JUndef} :
          FacadeSetItem("jsonStorage", k, v, fault)
    \/ \E k \in JsonKeys, fault \in BOOLEAN : \E mis \in MisReadsAt("jsonStorage", store[k]) :
          FacadeGetItem("jsonStorage", k, fault, mis)
    \/ \E k \in JsonKeys, fault \in BOOLEAN, s \in Strs :
          FacadeSetItem("localStorage", k, JStr(s), fault)
    \/ \E k \in JsonKeys, fault \in BOOLEAN : FacadeRemoveItem("jsonStorage", k, fault)

SpecJson == Init /\ [][NextJson]_vars

AtomDomain == AtomValues(atom.kind)
AtomMisReads ==
    IF atom.created THEN MisReadsAt(FacadeOf(atom.kind), store[atom.key]) ELSE {}

NextAtom ==
    \/ \E kind \in AtomKinds, k \in AtomKeys, fault \in BOOLEAN :
          \E d \in AtomInits(kind), mis \in MisReadsAt(FacadeOf(kind), store[k]) :
             AtomCreate(kind, k, d, fault, mis)
    \/ AtomRead
    \/ \E fault \in BOOLEAN, v \in AtomDomain : AtomWrite(v, fault)
    \/ \E fault \in BOOLEAN : AtomReset(fault)
    \/ \E fault \in BOOLEAN, mis \in AtomMisReads : AtomMount(fault, mis)
    \/ \E f \in Facades, k \in AtomKeys, fault \in BOOLEAN : \E v \in Domain(f) :
          FacadeSetItem(f, k, v, fault)
    \/ \E f \in Facades, k \in AtomKeys, fault \in BOOLEAN : FacadeRemoveItem(f, k, fault)
    \/ \E fault \in BOOLEAN : FacadeClear(fault)

SpecAtom == Init /\ [][NextAtom]_vars

NextDebounce ==
    \/ \E d \in Debs : DebouncedWrite(d, JNum(Len(writes) + 1))
    \/ \E tm \in timers : TimerFire(tm)
    \/ Tick

SpecDebounce == InitDebounce /\ [][NextDebounce]_vars

\* the same with reads of the debounced atoms, time passing and every timer
\* that is due firing in the end, as on the event loop
NextDebounceRead ==
    \/ \E d \in Debs : DebouncedWrite(d, JNum(Len(writes) + 1))
    \/ \E tm \in timers : TimerFire(tm)
    \/ Tick
    \/ \E d \in Debs : DebouncedRead(d)

SpecDebounceFair ==
    /\ InitDebounce
    /\ [][NextDebounceRead]_vars
    /\ WF_vars(Tick)
    /\ WF_vars(\E tm \in timers : TimerFire(tm))

NextHome ==
    \/ \E impl \in Impls : HomeRender(impl)
    \/ \E f1, f2, f3 \in BOOLEAN :
          \E mis1 \in MisReadsAt("localStorage", store["userInput"]),
             mis2 \in MisReadsAt("numberStorage", store["visitCount"]) :
             HomeEffect(f1, f2, f3, mis1, mis2)
    \/ \E text \in Inputs : HomeType(text)
    \/ \E fault, fatal \in BOOLEAN : HomeSave(fault, fatal)
    \/ \E fault, fatal \in BOOLEAN : HomeDelete(fault, fatal)
    \/ \E fault, fatal \in BOOLEAN : HomeClearAll(fault, fatal)

SpecHome == Init /\ [][NextHome]_vars

(***************************************************************************)
(* Properties of the facades, checked under Spec.                          *)
(***************************************************************************)
TypedFacades == {"localStorage", "numberStorage", "booleanStorage"}

\* last is a getItem that met no engine fault and directly follows a
\* successful `op` of the same facade on the same key
GetFollows(op) ==
    /\ last.op = "getItem" /\ ~last.fault
    /\ prev.op = op /\ ~prev.fault
    /\ prev.fac = last.fac /\ prev.key = last.key

\* C1: on the string, number and boolean facades, setItem(k, v) directly
\* followed by getItem(k) returns exactly v when the engine does not fault.
C1_RoundTrip ==
    (GetFollows("setItem") /\ last.fac \in TypedFacades)
        => (last.out = "ok" /\ last.res = prev.arg)

\* the falsy value 0 has been written and read back through numberStorage
C1_Witness ==
    /\ GetFollows("setItem") /\ last.fac = "numberStorage"
    /\ prev.arg = JNum(0) /\ last.res = JNum(0)

\* C2: getItem of a key absent from the engine returns null without throwing,
\* on each of the four facades, whether or not the engine faults.
C2_AbsentIsNull ==
    (last.op = "getItem" /\ store[last.key] = Absent)
        => (last.out = "ok" /\ last.res = JNull)

C2_Witness ==
    /\ last.op = "getItem" /\ store[last.key] = Absent
    /\ last.fac = "booleanStorage" /\ ~last.fault /\ last.res = JNull

\* C3: removeItem(k) directly followed by getItem(k) on the same facade
\* returns null when the engine does not fault.
C3_RemoveThenGet ==
    GetFollows("removeItem") => (last.out = "ok" /\ last.res = JNull)

\* a key that was present has been removed through numberStorage and read
C3_Witness ==
    /\ GetFollows("removeItem") /\ last.fac = "numberStorage"
    /\ prev.had /\ last.res = JNull

\* C4: clear() directly followed by getAllKeys() yields no key when the
\* engine does not fault.
C4_ClearThenKeys ==
    (last.op = "getAllKeys" /\ ~last.fault /\ prev.op = "clear" /\ ~prev.fault)
        => (last.out = "ok" /\ last.res = JKeys({}))

C4_Witness ==
    /\ last.op = "getAllKeys" /\ ~last.fault /\ prev.op = "clear" /\ ~prev.fault
    /\ prev.had /\ last.res = JKeys({})

\* the text under the key read is no valid JSON
CorruptText(k) == store[k].t = "str" /\ ~Falsy(store[k]) /\ JSON_parse(store[k]).kind = "throw"

\* C6: no facade call throws; on an engine fault, and for jsonStorage.getItem
\* on a text that is no valid JSON, getItem returns null, getAllKeys returns
\* no key, hasKey returns false, and setItem / removeItem / clear return.
C6_NoThrow ==
    /\ last.out = "ok"
    /\ (last.fault /\ last.op = "getItem") => last.res = JNull
    /\ (last.fault /\ last.op = "getAllKeys") => last.res = JKeys({})
    /\ (last.fault /\ last.op = "hasKey") => last.res = JBool(FALSE)
    /\ (last.op = "getItem" /\ last.fac = "jsonStorage" /\ CorruptText(last.key))
            => last.res = JNull

\* jsonStorage.getItem has read a text that is no valid JSON, with no fault
C6_Witness ==
    /\ last.op = "getItem" /\ last.fac = "jsonStorage" /\ ~last.fault
    /\ CorruptText(last.key) /\ last.res = JNull /\ last.out = "ok"

\* C10: a setItem, removeItem or clear whose engine call faults leaves the
\* content of the store as it was for every key, and makes one engine call.
C10_FaultIsNoOp ==
    [][(last'.op \in Mutations /\ last'.fault) => (store' = store /\ last'.calls = 1)]_vars

\* a setItem on a key holding a value has faulted
C10_Witness ==
    /\ last.op = "setItem" /\ last.fault /\ last.had
    /\ last.fac = "jsonStorage" /\ last.arg = JNull

(***************************************************************************)
(* jsonStorage with every JSON value, checked under SpecJson.              *)
(***************************************************************************)
\* C5: jsonStorage.setItem(k, v) directly followed by jsonStorage.getItem(k)
\* returns a value deep-equal to v, for every JSON-serializable v, when the
\* engine does not fault.
C5_JsonRoundTrip ==
    (GetFollows("setItem") /\ last.fac = "jsonStorage")
        => (last.out = "ok" /\ last.res = prev.arg)

\* an object holding a string has been written and read back
C5_Witness ==
    /\ GetFollows("setItem") /\ last.fac = "jsonStorage"
    /\ prev.arg = JObj([k \in ObjKeys |-> JStr(<<"a">>)])
    /\ last.res = prev.arg

(***************************************************************************)
(* The persisted atom, checked under SpecAtom.                             *)
(***************************************************************************)
\* the store entry e holds a value of the kind's facade
Holds(kind, e) ==
    CASE kind = "atomWithMMKV" -> e.t = "str" /\ JSON_parse(e).kind = "ok"
      [] kind = "atomWithMMKVString" -> e.t = "str"
      [] kind = "atomWithMMKVNumber" -> e.t = "num"
      [] kind = "atomWithMMKVBoolean" -> e.t = "bool"

\* the value it holds
StoredValue(kind, e) == IF kind = "atomWithMMKV" THEN JSON_parse(e).val ELSE e

\* C7: an atom created while the store holds v under its key yields v, not
\* the initial value, on its first read, unless the read faults.
C7_SeededFromStore ==
    (alast.op = "create" /\ ~alast.fault /\ Holds(atom.kind, alast.held))
        => alast.res = StoredValue(atom.kind, alast.held)

\* C9: a write to a persisted atom passes the new value to setItem of the
\* atom's facade and sets the in-memory value, so that the read that follows
\* returns it, whether or not the storage write faulted.
C9_WriteThrough ==
    /\ alast.op = "write" =>
          /\ atom.val = alast.arg
          /\ alast.fac = FacadeOf(atom.kind)
          /\ alast.passed = alast.arg
    /\ (alast.op = "read" /\ alast.after = "write") => alast.res = alast.afterArg

\* the storage write of 0 has faulted on an absent key: the atom holds 0 and
\* the store holds nothing
C9_Witness ==
    /\ alast.op = "write" /\ alast.fault /\ atom.kind = "atomWithMMKVNumber"
    /\ alast.arg = JNum(0) /\ atom.val = JNum(0)
    /\ last.op = "setItem" /\ last.fault /\ last.arg = JNum(0)
    /\ store[atom.key] = Absent

(***************************************************************************)
(* The debounced atoms, checked under SpecDebounce.                        *)
(***************************************************************************)
\* the writes made to debounced atom d, as indices of `writes`, in order
WritesOf(d) == SelectSeq([i \in 1..Len(writes) |-> i], LAMBDA i : writes[i].deb = d)

\* the commits made for debounced atom d
CommitsOf(d) == SelectSeq(commits, LAMBDA id : writes[id].deb = d)

\* the n-th write to d is followed by another write to d before its delay
\* has elapsed
Superseded(d, n) ==
    /\ n < Len(WritesOf(d))
    /\ writes[WritesOf(d)[n + 1]].t - writes[WritesOf(d)[n]].t < delay[d]

\* every write to d but the last is superseded
Burst(d) == \A n \in 1..(Len(WritesOf(d)) - 1) : Superseded(d, n)

Pending(d) == {tm \in timers : tm.deb = d}

\* C8: of writes to a debounced atom that follow one another within less
\* than the delay, only the last is committed to the base atom, once: a
\* superseded write is never committed, a write leaves one timer pending,
\* the one of the last write, and once no timer is pending a burst of writes
\* has caused exactly one commit, that of its last write.
C8_TrailingEdge ==
    \A d \in Debs :
       /\ \A n \in 1..Len(WritesOf(d)) :
             Superseded(d, n) => \A c \in 1..Len(commits) : commits[c] # WritesOf(d)[n]
       /\ \A c1, c2 \in 1..Len(commits) : commits[c1] = commits[c2] => c1 = c2
       /\ \A tm \in Pending(d) :
             /\ tm.id = WritesOf(d)[Len(WritesOf(d))]
             /\ timeoutMap[d] = tm.id
             /\ tm.v = writes[tm.id].v
       /\ (Len(WritesOf(d)) > 0 /\ Burst(d) /\ Pending(d) = {}) =>
             CommitsOf(d) = <<WritesOf(d)[Len(WritesOf(d))]>>

\* three writes w1, w2, w3 to one debounced atom within the window, and the
\* one commit of w3
C8_Witness ==
    /\ WritesOf(1) = <<1, 2, 3>> /\ Burst(1) /\ Pending(1) = {}
    /\ writes[3].t > writes[1].t
    /\ commits = <<3>> /\ base = JNum(3)

(***************************************************************************)
(* Removal and seeding of the persisted atom, checked under SpecAtom.      *)
(***************************************************************************)
\* C11: an operation on a persisted atom deletes the atom's key from the
\* store only if it is the reset that calls the bridge's removeItem: a write,
\* of null and undefined too, leaves a key that was present present.
C11_WriteNeverDeletes ==
    [][(/\ atom.created /\ alast'.op # "none"
        /\ store[atom.key] # Absent /\ store'[atom.key] = Absent)
          => alast'.op = "reset"]_vars

\* null has been written to an atom whose key held a value, and the key is
\* still present
C11_Witness ==
    /\ alast.op = "write" /\ alast.arg = JNull /\ ~alast.fault
    /\ alast.held \notin {Absent, JStr(<<"n", "u", "l", "l">>)}
    /\ last.op = "setItem" /\ last.arg = JNull
    /\ store[atom.key] = JStr(<<"n", "u", "l", "l">>)

\* C12: a persisted atom is seeded from the store at its creation only:
\* after its creation its in-memory value changes only by a write or a reset
\* of the atom, whatever setItem, removeItem or clear did to the store through
\* a facade, if no engine call faults.
C12_SeededOnlyAtCreation ==
    [][(atom.created /\ atom'.val # atom.val /\ ~alast'.fault)
          => alast'.op \in {"write", "reset"}]_vars

\* the value the base atom took at the n-th commit (its initial value for 0)
CommittedValue(n) == IF n = 0 THEN JNum(0) ELSE writes[commits[n]].v

\* C13: with two debounced atoms over one base atom, the base atom holds the
\* value of the commit whose timer fired last, whatever the order of the
\* writes; a write changes the base atom only through the firing of a timer.
C13_LastFireWins == base = CommittedValue(Len(commits))

\* the two debounced atoms were written one after the other, their timers
\* fired in the other order, and the base atom holds the earlier write
C13_Witness ==
    /\ Len(writes) = 2 /\ writes[1].deb = 1 /\ writes[2].deb = 2
    /\ timers = {} /\ commits = <<2, 1>>
    /\ base = writes[1].v

(***************************************************************************)
(* Progress of the debounced atoms, checked under SpecDebounceFair.        *)
(***************************************************************************)
LastWriteOf(d) == WritesOf(d)[Len(WritesOf(d))]

Committed(id) == \E c \in 1..Len(commits) : commits[c] = id

\* the last write to d is committed and d has no timer left
Settled(d) ==
    /\ Pending(d) = {} /\ timeoutMap[d] = 0
    /\ Len(WritesOf(d)) > 0 /\ Committed(LastWriteOf(d))

\* C14: once a debounced atom has been written, its last write is committed
\* in the end, with no timer pending and no entry in the timer map; and a
\* read of the debounced atom returns the value of the base atom, that of
\* the commit made last, never the value waiting in a timer.
C14_Progress ==
    /\ \A d \in Debs : [](Len(WritesOf(d)) > 0 => <>Settled(d))
    /\ [](dread.deb # 0 =>
            /\ dread.res = CommittedValue(Len(commits))
            /\ \A tm \in Pending(dread.deb) : dread.res # tm.v)

\* the write to the first debounced atom is committed and its timer gone;
\* a read of the second, made while its write waits, returned that commit
C14_Witness ==
    /\ WritesOf(1) = <<1>> /\ Settled(1)
    /\ WritesOf(2) = <<2>> /\ Pending(2) # {}
    /\ dread.deb = 2 /\ dread.pending /\ dread.res = JNum(1)

(***************************************************************************)
(* One store under the four facades, checked under Spec.                   *)
(***************************************************************************)
\* last is a read of key k that met no engine fault and directly follows a
\* successful removeItem(k) of any facade
ReadFollowsRemove ==
    /\ prev.op = "removeItem" /\ ~prev.fault
    /\ last.op \in {"getItem", "hasKey"} /\ ~last.fault
    /\ last.key = prev.key

\* C16: removeItem(k) of any one facade, when the engine does not fault,
\* leaves key k absent from the shared store whatever it held; directly
\* afterwards localStorage.hasKey(k) is false and getItem(k) is null on
\* every facade.
C16_RemoveIsShared ==
    /\ (last.op = "removeItem" /\ ~last.fault) => store[last.key] = Absent
    /\ ReadFollowsRemove =>
          /\ last.out = "ok"
          /\ last.op = "getItem" => last.res = JNull
          /\ last.op = "hasKey" => last.res = JBool(FALSE)

\* a key that was present has been removed through booleanStorage and is
\* read as null through numberStorage
C16_Witness ==
    /\ ReadFollowsRemove
    /\ prev.fac = "booleanStorage" /\ prev.had
    /\ last.op = "getItem" /\ last.fac = "numberStorage" /\ last.res = JNull

(***************************************************************************)
(* The HomeScreen and the store, checked under SpecHome.                   *)
(***************************************************************************)
\* C15: once the effect of the mount has run loadStoredData, and while no
\* engine call of the HomeScreen's handlers has faulted, the visit count
\* displayed is the number stored under 'visitCount' (0 when the key is
\* absent), the mount has left the stored number one above what it was, and
\* the stored value displayed is the string stored under 'userInput'
\* (undefined when absent); the string stored under 'userInput' is never
\* empty nor made of whitespace only.  Between the first render and the
\* effect the cells hold '' and 0 and the store is as it was.
C15_DisplayMatchesStore ==
    /\ (home.mounted /\ home.loaded /\ ~home.faulted) =>
          /\ home.visitCount = JNum(StoredCount(store))
          /\ home.op = "mount" => store["visitCount"] = JNum(home.was + 1)
          /\ home.storedValue =
                (IF store["userInput"] = Absent THEN JUndef ELSE store["userInput"])
    /\ (home.mounted /\ ~home.loaded) =>
          /\ home.op = "render"
          /\ home.storedValue = JStr(<<>>) /\ home.visitCount = JNum(0)
    /\ store["userInput"] # Absent =>
          /\ store["userInput"].t = "str"
          /\ Trim(store["userInput"].s) # <<>>

\* the screen has been mounted a second time and its effect has run: the
\* count went from 1 to 2 and the value displayed is the one saved before
C15_Witness ==
    /\ home.mounted /\ home.loaded /\ ~home.faulted /\ home.op = "mount"
    /\ home.was = 1 /\ home.visitCount = JNum(2) /\ store["visitCount"] = JNum(2)
    /\ home.storedValue = JStr(<<"a">>)
    /\ store["userInput"] = JStr(<<"a">>)
====
